---- MODULE Spec2Model ----
(***************************************************************************)
(* Model of src/proj2/perceptron.py: the feature normaliser, the two       *)
(* training rules (fixed_increment, batch_relaxation) and the one-against- *)
(* rest Perceptron (train / classify).                                     *)
(*                                                                         *)
(* Numbers.  Samples are integer vectors.  fixed_increment starts from     *)
(* all-ones and only adds samples, so its arithmetic is exact on integers. *)
(* batch_relaxation divides and scales by a rate: its float64 values are   *)
(* kept in fixed point, as integer multiples of 1/Scale, each float        *)
(* operation rounding to the nearest multiple, with +inf, -inf and nan     *)
(* carried as the values PInf, NInf and NaN (see the section Floating      *)
(* point below).                                                           *)
(***************************************************************************)
EXTENDS Integers, Sequences, FiniteSets, TLC

VARIABLES
    pc,          \* position of the caller: which call has just completed
    samples,     \* the raw samples handed to the current call (rows of features)
    labels,      \* their labels
    cls,         \* normalize_features' target class
    normalized,  \* the augmented, sign-adjusted matrix normalize_features returned
    call,        \* the arguments of the last training-rule call
    out,         \* what the last training-rule call returned (or raised)
    rule,        \* Perceptron.rule
    weights,     \* Perceptron.weights: a dict, kept as its item list in insertion order
    before,      \* history: Perceptron.weights when the last train call began
    writes,      \* history: the labels the last train call stored, in the order stored
    ntrain,      \* history: number of train calls made on the Perceptron
    data,        \* the argument of the last classify call
    result       \* what the last classify call returned (or raised)

vars == <<pc, samples, labels, cls, normalized, call, out, rule, weights,
          before, writes, ntrain, data, result>>

----------------------------------------------------------------------------
(* Bounds of the model and constants of the program *)

\* fixed_increment and batch_relaxation give up when trial > 100000
TrialCap == 100000
\* fixed_increment's default theta = 0.000003 = ThetaNum / ThetaDen
ThetaNum == 3
ThetaDen == 1000000

\* values a feature takes in the systematically enumerated inputs
FeatureValues == {-1, 0, 1}
\* the samples drawn: one feature each
Rows == {<<x>> : x \in FeatureValues}
\* class labels in the inputs drawn
Labels == {1, 2}
\* samples per training set handed to fixed_increment
MaxSamples == 2

----------------------------------------------------------------------------
(* Vectors (numpy arrays of rank 1), as tuples *)

Abs(v) == IF v < 0 THEN -v ELSE v

RECURSIVE DotFrom(_, _, _)
DotFrom(a, b, i) ==
    IF i > Len(a) THEN 0 ELSE a[i] * b[i] + DotFrom(a, b, i + 1)

\* np.sum(weights * y), np.dot(weights, y) on integer vectors
Dot(a, b) ==
    IF Len(a) = 2 THEN a[1] * b[1] + a[2] * b[2] ELSE DotFrom(a, b, 1)

RECURSIVE AddFrom(_, _, _)
AddFrom(a, b, i) ==
    IF i > Len(a) THEN <<>> ELSE <<a[i] + b[i]>> \o AddFrom(a, b, i + 1)

\* weights + y
VecAdd(a, b) ==
    IF Len(a) = 2 THEN <<a[1] + b[1], a[2] + b[2]>> ELSE AddFrom(a, b, 1)

RECURSIVE Ones(_)
\* np.ones((n,))
Ones(n) == IF n = 0 THEN <<>> ELSE <<1>> \o Ones(n - 1)

RECURSIVE NegFrom(_, _)
NegFrom(a, i) == IF i > Len(a) THEN <<>> ELSE <<-a[i]>> \o NegFrom(a, i + 1)

\* result[i] *= -1
Negate(a) == NegFrom(a, 1)

RECURSIVE Dist2From(_, _, _)
Dist2From(a, b, i) ==
    IF i > Len(a) THEN 0
    ELSE (a[i] - b[i]) * (a[i] - b[i]) + Dist2From(a, b, i + 1)

\* util.dist(a, b), squared: the Euclidean distance of the spec's
\* "delta = distance(currentWeights, previousTrialWeights)"
Dist2(a, b) ==
    IF Len(a) = 2
    THEN (a[1] - b[1]) * (a[1] - b[1]) + (a[2] - b[2]) * (a[2] - b[2])
    ELSE Dist2From(a, b, 1)

----------------------------------------------------------------------------
(* normalize_features *)

\* one row: [1, features...], negated as a whole when the label is not cls
\* (variant: only the features are negated, the leading 1 is kept)
NormalizeRow_BiasKept(c, sample, label) ==
    IF label # c THEN <<1>> \o Negate(sample) ELSE <<1>> \o sample

NormalizeRow(c, sample, label) ==
    IF label # c THEN Negate(<<1>> \o sample) ELSE <<1>> \o sample

RECURSIVE NormalizeFrom(_, _, _, _)
NormalizeFrom(c, X, L, i) ==
    IF i > Len(X) THEN <<>>
    ELSE <<NormalizeRow(c, X[i], L[i])>> \o NormalizeFrom(c, X, L, i + 1)

NormalizeFeatures(c, X, L) == NormalizeFrom(c, X, L, 1)

----------------------------------------------------------------------------
(* fixed_increment *)

\* best = np.inf: no error count seen yet
NoBest == -1

\* if net <= 0: the sample is an error of the trial
\* (variant: net < 0, a sample on the boundary is not an error)
Misclassified_Strict(net) == net < 0

Misclassified(net) == net <= 0

\* one pass over the samples (the for loop): <<weights, len(errors)>>
RECURSIVE Pass(_, _, _, _)
Pass(Y, k, w, e) ==
    IF k > Len(Y) THEN <<w, e>>
    ELSE IF Misclassified(Dot(w, Y[k]))
         THEN Pass(Y, k + 1, VecAdd(w, Y[k]), e + 1)
         ELSE Pass(Y, k + 1, w, e)

\* len(errors) < best
ImprovesBest(e, best) == best = NoBest \/ e < best

\* delta <= theta for an integer delta^2: delta^2 <= theta^2 = Num^2 / Den^2,
\* i.e. delta^2 <= floor(floor(Num^2 / Den) / Den)
DeltaLeTheta(d2) == d2 <= ((ThetaNum * ThetaNum) \div ThetaDen) \div ThetaDen

\* if trial > 100000: weights = bw
\* (variant: the current weights are returned at the cap)
CapWeights_Current(bw, w) == w

CapWeights(bw, w) == bw

\* trial > 100000
\* (variant: no cap)
OverCap_Never(trial) == FALSE

OverCap(trial) == trial > TrialCap

\* The locals of fixed_increment on entry to the while loop.  minErrors and
\* minWeights are history: the least error count of the trials run and the
\* weights held at the start of the earliest trial that had it; last is the
\* weights current after the latest trial's updates.
FixedIncrementInit(Y, features) ==
    [trial |-> -1, weights |-> Ones(features), best |-> NoBest,
     bw |-> Ones(features), exit |-> "running",
     minErrors |-> NoBest, minWeights |-> Ones(features),
     last |-> Ones(features)]

\* one iteration of while True
FixedIncrementTrial(Y, s) ==
    LET trial == s.trial + 1
        old_weights == s.weights
        p == Pass(Y, 1, s.weights, 0)
        w == p[1]
        e == p[2]
        improved == ImprovesBest(e, s.best)
        best == IF improved THEN e ELSE s.best
        bw == IF improved THEN old_weights ELSE s.bw
        hmin == s.minErrors = NoBest \/ e < s.minErrors
        minErrors == IF hmin THEN e ELSE s.minErrors
        minWeights == IF hmin THEN old_weights ELSE s.minWeights
    IN  IF e = 0
        THEN [s EXCEPT !.trial = trial, !.last = w, !.exit = "converged"]
        ELSE [trial |-> trial,
              weights |-> IF OverCap(trial) THEN CapWeights(bw, w) ELSE w,
              best |-> best, bw |-> bw,
              exit |-> IF OverCap(trial) THEN "cap"
                       ELSE IF DeltaLeTheta(Dist2(w, old_weights)) THEN "delta"
                       ELSE "running",
              minErrors |-> minErrors, minWeights |-> minWeights, last |-> w]

\* The while loop: n iterations unless a break comes first, split in halves
\* so that the nesting of the evaluation stays logarithmic in n.
RECURSIVE FixedIncrementLoop(_, _, _)
FixedIncrementLoop(Y, s, n) ==
    IF s.exit # "running" THEN s
    ELSE IF n = 1 THEN FixedIncrementTrial(Y, s)
    ELSE LET h == n \div 2
             m == FixedIncrementLoop(Y, s, h)
         IN  FixedIncrementLoop(Y, m, n - h)

\* iterations after which every loop of the program has broken: trial runs
\* from its initial value to TrialCap + 1
Fuel == TrialCap + 3

\* fixed_increment(samples): the locals at the return statement
FixedIncrement(Y, features) ==
    FixedIncrementLoop(Y, FixedIncrementInit(Y, features), Fuel)

----------------------------------------------------------------------------
(* Floating point, for batch_relaxation                                    *)
(*                                                                         *)
(* A float64 is an integer count of units of 1/Scale.  Magnitudes above    *)
(* FloatMax stand for float64 overflow: they become PInf or NInf, and the  *)
(* IEEE rules for inf and nan apply from there on (inf - inf = nan,        *)
(* 0 * inf = nan, every comparison with nan is false).  FloatMax is far    *)
(* above every weight a run of the modelled inputs holds unless it         *)
(* diverges geometrically, which float64 overflows as well, only later.    *)

Scale == 100 * 100
FloatMax == 300 * Scale
PInf == FloatMax + 1
NInf == -(FloatMax + 1)
NaN == FloatMax + 2

IsFinite(a) == a >= -FloatMax /\ a <= FloatMax

\* the float64 nearest to an exact result v
Sat(v) == IF v > FloatMax THEN PInf ELSE IF v < -FloatMax THEN NInf ELSE v

FNeg(a) == IF a = NaN THEN NaN ELSE -a

FAdd(a, b) ==
    IF IsFinite(a) /\ IsFinite(b) THEN Sat(a + b)
    ELSE IF a = NaN \/ b = NaN THEN NaN
    ELSE IF IsFinite(a) THEN b
    ELSE IF IsFinite(b) \/ a = b THEN a
    ELSE NaN

FSub(a, b) == FAdd(a, FNeg(b))

\* a * k for an integer k (a coordinate of a sample)
FMulInt(a, k) ==
    IF IsFinite(a) THEN Sat(a * k)
    ELSE IF a = NaN \/ k = 0 THEN NaN
    ELSE IF k > 0 THEN a ELSE -a

\* a / b rounded to the nearest unit, b > 0
RoundDiv(a, b) == (2 * a + b) \div (2 * b)

\* a * num / den for integers num > 0, den > 0
FScale(a, num, den) ==
    IF IsFinite(a) THEN Sat(RoundDiv(a * num, den)) ELSE a

\* a <= b
FLe(a, b) == a # NaN /\ b # NaN /\ a <= b

\* a > b
FGt(a, b) == a # NaN /\ b # NaN /\ a > b

RECURSIVE FDotFrom(_, _, _)
FDotFrom(w, y, i) ==
    IF i > Len(w) THEN 0
    ELSE FAdd(FMulInt(w[i], y[i]), FDotFrom(w, y, i + 1))

\* np.sum(weights * y), np.dot(weights, x) for float weights
FDot(w, y) ==
    IF Len(w) = 2 THEN FAdd(FMulInt(w[1], y[1]), FMulInt(w[2], y[2]))
    ELSE FDotFrom(w, y, 1)

\* np.sum(x ** 2)
Norm2(x) == Dot(x, x)

----------------------------------------------------------------------------
(* batch_relaxation *)

\* rate = numerator / RateDen; the default rate is 0.02
RateDen == 100
DefaultRate == 2
\* the default margin, 1.5
DefaultMargin == (3 * Scale) \div 2
\* approx(x, 0, 0.00001): tolerance 1 / TolDen
TolDen == 100000

\* if not (0 < rate < 2): raise ValueError
\* (variant: rate = 2 accepted)
RateValid_TwoAllowed(rate) == 0 < rate /\ rate <= 2 * RateDen

RateValid(rate) == 0 < rate /\ rate < 2 * RateDen

\* net <= margin
IsError(net, margin) == FLe(net, margin)

\* net = np.sum(weights * y) for every row y of the samples, from row k on
RECURSIVE Nets(_, _, _)
Nets(Y, w, k) ==
    IF k > Len(Y) THEN <<>> ELSE <<FDot(w, Y[k])>> \o Nets(Y, w, k + 1)

\* np.sum(x ** 2) for every row x, from row k on
RECURSIVE Norms(_, _)
Norms(Y, k) == IF k > Len(Y) THEN <<>> ELSE <<Norm2(Y[k])>> \o Norms(Y, k + 1)

\* errors: the samples with net <= margin, as their row numbers, in order
RECURSIVE RelaxErrors(_, _, _)
RelaxErrors(nets, margin, k) ==
    IF k > Len(nets) THEN <<>>
    ELSE IF IsError(nets[k], margin)
         THEN <<k>> \o RelaxErrors(nets, margin, k + 1)
         ELSE RelaxErrors(nets, margin, k + 1)

\* margin - np.dot(weights, x) for every x in errors, from error j on;
\* np.dot(weights, x) is the net of the row
RECURSIVE Residuals(_, _, _, _)
Residuals(errs, nets, margin, j) ==
    IF j > Len(errs) THEN <<>>
    ELSE <<FSub(margin, nets[errs[j]])>> \o Residuals(errs, nets, margin, j + 1)

\* component i of np.sum([x * (margin - np.dot(weights, x)) / np.sum(x ** 2)
\*                        for x in errors], axis=0), from error j on;
\* res holds the margin - np.dot(weights, x), N the np.sum(x ** 2)
RECURSIVE UpdateSum(_, _, _, _, _, _)
UpdateSum(Y, N, errs, res, i, j) ==
    IF j > Len(errs) THEN 0
    ELSE LET p == FMulInt(res[j], Y[errs[j]][i])
             term == IF IsFinite(p) THEN RoundDiv(p, N[errs[j]]) ELSE p
         IN  FAdd(term, UpdateSum(Y, N, errs, res, i, j + 1))

\* weights + rate * np.sum(...), from component i on
RECURSIVE RelaxUpdate(_, _, _, _, _, _, _)
RelaxUpdate(Y, N, errs, res, w, rate, i) ==
    IF i > Len(w) THEN <<>>
    ELSE <<FAdd(w[i], FScale(UpdateSum(Y, N, errs, res, i, 1), rate, RateDen))>>
         \o RelaxUpdate(Y, N, errs, res, w, rate, i + 1)

RECURSIVE AllFinite(_, _)
AllFinite(w, i) == i > Len(w) \/ (IsFinite(w[i]) /\ AllFinite(w, i + 1))

\* util.approx(dist(old_weights, weights), 0, 0.00001): the distance is
\* within 1/TolDen of 0, i.e. its square in units is at most
\* floor(Scale^2 / TolDen^2); components further apart than that decide the
\* comparison without being squared
ApproxZeroDist(a, b) ==
    LET lim == ((Scale * Scale) \div TolDen) \div TolDen
    IN  /\ \A i \in 1..Len(a) : Abs(a[i] - b[i]) <= lim
        /\ AllFinite(a, 1) /\ AllFinite(b, 1)
        /\ Dist2(a, b) <= lim

RECURSIVE NormProduct(_, _, _)
NormProduct(N, errs, j) ==
    IF j > Len(errs) THEN 1 ELSE N[errs[j]] * NormProduct(N, errs, j + 1)

RECURSIVE CriterionSum(_, _, _, _, _)
CriterionSum(N, errs, res, P, j) ==
    IF j > Len(errs) THEN 0
    ELSE res[j] * res[j] * (P \div N[errs[j]]) + CriterionSum(N, errs, res, P, j + 1)

\* util.approx(criterion(old_weights, errors, margin), 0, 0.00001), where
\* criterion = 0.5 * sum(((w.y - margin) / |y|) ** 2): with P the product of
\* the |y|^2, sum((w.y - margin)^2 * P / |y|^2) <= 2 * P * Scale^2 / TolDen.
\* A residual whose square alone exceeds the limit decides the comparison
\* without being summed.  res holds the margin - w.y of old_weights.
ApproxZeroCriterion(N, errs, res) ==
    LET P == NormProduct(N, errs, 1)
        lim == 2 * P * ((Scale * Scale) \div TolDen)
    IN  /\ \A j \in 1..Len(errs) :
              IsFinite(res[j]) /\ Abs(res[j]) <= lim /\ res[j] * res[j] <= lim
        /\ CriterionSum(N, errs, res, P, 1) <= lim

\* The locals of batch_relaxation on entry to the for loop; w0 is the value
\* np.random.rand drew.  cycle(range(n)) yields nothing when n = 0, so the
\* loop body never runs on an empty sample matrix.
BatchRelaxationInit(Y, w0) ==
    [trial |-> 0, weights |-> w0, best |-> NoBest,
     exit |-> IF Len(Y) = 0 THEN "empty" ELSE "running"]

\* one iteration of the for loop
BatchRelaxationTrial(Y, N, rate, margin, s) ==
    LET nets == Nets(Y, s.weights, 1)
        errs == RelaxErrors(nets, margin, 1)
        old_weights == s.weights
        res == Residuals(errs, nets, margin, 1)
        w == RelaxUpdate(Y, N, errs, res, s.weights, rate, 1)
        best == IF ImprovesBest(Len(errs), s.best) THEN Len(errs) ELSE s.best
    IN  IF Len(errs) = 0 THEN [s EXCEPT !.exit = "converged"]
        ELSE IF OverCap(s.trial)
        THEN [s EXCEPT !.weights = w, !.exit = "cap"]
        ELSE IF ApproxZeroDist(old_weights, w)
                /\ ApproxZeroCriterion(N, errs, res)
        THEN [s EXCEPT !.weights = w, !.best = best, !.exit = "stalled"]
        ELSE [trial |-> s.trial + 1, weights |-> w, best |-> best,
              exit |-> "running"]

RECURSIVE BatchRelaxationLoop(_, _, _, _, _, _)
BatchRelaxationLoop(Y, N, rate, margin, s, n) ==
    IF s.exit # "running" THEN s
    ELSE IF n = 1 THEN BatchRelaxationTrial(Y, N, rate, margin, s)
    ELSE LET h == n \div 2
             m == BatchRelaxationLoop(Y, N, rate, margin, s, h)
         IN  BatchRelaxationLoop(Y, N, rate, margin, m, n - h)

\* batch_relaxation(samples, rate, margin) with np.random.rand drawing w0:
\* the locals at the return statement, or exit "ValueError" with no weights
\* drawn when the rate check raises
BatchRelaxation(Y, rate, margin, w0) ==
    IF ~RateValid(rate)
    THEN [trial |-> 0, weights |-> <<>>, best |-> NoBest, exit |-> "ValueError"]
    ELSE BatchRelaxationLoop(Y, Norms(Y, 1), rate, margin,
                             BatchRelaxationInit(Y, w0), Fuel)


----------------------------------------------------------------------------
(* The inputs drawn *)

\* columns of the samples matrix (samples.shape[1])
FeatureCount == Len(CHOOSE r \in Rows : TRUE)

\* the calls normalize_features(c, X, L) with exactly n rows in X
InputsOfSize(n) ==
    {<<X, L, c>> : X \in [1..n -> Rows], L \in [1..n -> Labels], c \in Labels}

\* A separable set with a thin margin: fixed_increment needs more than
\* TrialCap trials on it.
HardSeparable == << <<<<224>>, <<223>>>>, <<1, 2>>, 1 >>
\* A set that is not separable, on which fixed_increment cycles.
Cycling == << <<<<-1>>, <<0>>, <<1>>>>, <<1, 2, 1>>, 1 >>
\* The same sample in both classes: not separable, batch_relaxation never
\* empties its error set.
Conflict == << <<<<0>>, <<0>>>>, <<1, 2>>, 1 >>
\* A sample twice in one class and once in the other: not separable, and
\* with a rate near 2 the batch update overshoots further every trial.
Overshoot == << <<<<-1>>, <<-1>>, <<-1>>>>, <<1, 1, 2>>, 1 >>

\* the inputs fixed_increment is called on
FixedInputs ==
    UNION {InputsOfSize(n) : n \in 0..MaxSamples} \cup {HardSeparable, Cycling}

\* rates, as numerators over RateDen: -1, 0, 0.02, 1.9, 2, 3
Rates == {-100, 0, DefaultRate, 190, 200, 300}
Margins == {DefaultMargin}
\* values np.random.rand may draw, in [0, 1)
InitialWeights == {<<0, 0>>, <<0, Scale \div 2>>}

\* the inputs batch_relaxation is called on with every rate, margin and
\* initial weight vector above
RelaxInputs == InputsOfSize(0) \cup InputsOfSize(1)

\* the calls of batch_relaxation: <<X, L, c, rate, margin, w0>>
RelaxCalls ==
    {<<t[1], t[2], t[3], rate, margin, w0>> :
        t \in RelaxInputs, rate \in Rates, margin \in Margins,
        w0 \in InitialWeights}
    \cup {<<Conflict[1], Conflict[2], Conflict[3],
            DefaultRate, DefaultMargin, <<0, 0>>>>,
          <<Overshoot[1], Overshoot[2], Overshoot[3],
            190, DefaultMargin, <<0, Scale \div 2>>>>}

----------------------------------------------------------------------------
(* The training rules called on their own *)

NoCall == [fn |-> "none"]
NoOut == [exit |-> "none"]

RuleInit ==
    /\ \E t \in FixedInputs \cup RelaxInputs \cup {Conflict, Overshoot} :
          samples = t[1] /\ labels = t[2] /\ cls = t[3]
    /\ pc = "input"
    /\ normalized = <<>>
    /\ call = NoCall
    /\ out = NoOut
    /\ rule = "none"
    /\ weights = <<>>
    /\ before = <<>>
    /\ writes = <<>>
    /\ ntrain = 0
    /\ data = <<>>
    /\ result = NoOut

Normalize ==
    /\ pc = "input"
    /\ normalized' = NormalizeFeatures(cls, samples, labels)
    /\ pc' = "normalized"
    /\ UNCHANGED <<samples, labels, cls, call, out, rule, weights, before,
                   writes, ntrain, data, result>>

CallFixedIncrement ==
    /\ pc = "normalized"
    /\ <<samples, labels, cls>> \in FixedInputs
    /\ call' = [fn |-> "fixed_increment"]
    /\ out' = FixedIncrement(normalized, FeatureCount + 1)
    /\ pc' = "returned"
    /\ UNCHANGED <<samples, labels, cls, normalized, rule, weights, before,
                   writes, ntrain, data, result>>

CallBatchRelaxation ==
    /\ pc = "normalized"
    /\ \E rate \in Rates, margin \in Margins, w0 \in InitialWeights :
          /\ <<samples, labels, cls, rate, margin, w0>> \in RelaxCalls
          /\ call' = [fn |-> "batch_relaxation", rate |-> rate,
                      margin |-> margin, w0 |-> w0]
          /\ out' = BatchRelaxation(normalized, rate, margin, w0)
    /\ pc' = "returned"
    /\ UNCHANGED <<samples, labels, cls, normalized, rule, weights, before,
                   writes, ntrain, data, result>>

RuleNext == Normalize \/ CallFixedIncrement \/ CallBatchRelaxation

Spec == RuleInit /\ [][RuleNext]_vars

----------------------------------------------------------------------------
(* Perceptron *)

\* train calls made on one Perceptron
MaxTrainCalls == 2
\* rows of the data handed to one classify call
MaxData == 1
\* rows of the training sets handed to train
TrainSizes == {0, 1, 2}

\* the training sets: <<samples, labels>>
TrainingSets ==
    UNION {{<<X, L>> : X \in [1..n -> Rows], L \in [1..n -> Labels]} :
              n \in TrainSizes}

\* the data classify is called on
DataSets == UNION {[1..n -> Rows] : n \in 0..MaxData}

\* what np.random.rand may draw for a call of the rule's method: only
\* batch_relaxation draws
Draws(r) == IF r = "relax" THEN InitialWeights ELSE {<<>>}

\* self.weights.keys()
Keys(m) == {m[i].label : i \in 1..Len(m)}

RECURSIVE SetFrom(_, _, _, _)
SetFrom(m, label, a, i) ==
    IF i > Len(m) THEN <<>>
    ELSE <<IF m[i].label = label THEN [label |-> label, a |-> a] ELSE m[i]>>
         \o SetFrom(m, label, a, i + 1)

\* self.weights[label] = a: a key the dict holds keeps its place in the
\* iteration order, a new key goes last
SetItem(m, label, a) ==
    IF label \in Keys(m) THEN SetFrom(m, label, a, 1)
    ELSE Append(m, [label |-> label, a |-> a])

\* np.unique(labels): the distinct labels, ascending
RECURSIVE Ascending(_)
Ascending(S) ==
    IF S = {} THEN <<>>
    ELSE LET least == CHOOSE x \in S : \A y \in S : x <= y
         IN  <<least>> \o Ascending(S \ {least})

Unique(L) == Ascending({L[i] : i \in 1..Len(L)})

\* self.rule.method(normalized, debug=True): TrainingRule.get_method picks
\* the function, called with its default rate, margin and theta
RuleMethod(r, Y, w0) ==
    IF r = "fixed" THEN FixedIncrement(Y, FeatureCount + 1).weights
    ELSE BatchRelaxation(Y, DefaultRate, DefaultMargin, w0).weights

\* the body of train's for loop computes the vector of one label
\* (variant: every label trained against the class of the first sample)
ClassWeights_FirstLabel(r, label, X, L, w0) ==
    RuleMethod(r, NormalizeFeatures(L[1], X, L), w0)

ClassWeights(r, label, X, L, w0) ==
    RuleMethod(r, NormalizeFeatures(label, X, L), w0)

\* train's for loop over the labels order[i], order[i + 1], ...; draws[i] is
\* what np.random.rand draws in the call for order[i]
RECURSIVE TrainFrom(_, _, _, _, _, _, _)
TrainFrom(m, r, order, draws, X, L, i) ==
    IF i > Len(order) THEN m
    ELSE TrainFrom(SetItem(m, order[i], ClassWeights(r, order[i], X, L, draws[i])),
                   r, order, draws, X, L, i + 1)

\* np.dot(a[1:], x) + a[0]
Score(a, x) == DotFrom(Tail(a), x, 1) + a[1]

\* values[:, 1] for the entries from i on
RECURSIVE Scores(_, _, _)
Scores(m, x, i) ==
    IF i > Len(m) THEN <<>> ELSE <<Score(m[i].a, x)>> \o Scores(m, x, i + 1)

\* np.argmax(v): the index of the first occurrence of the maximum
\* (variant: the last occurrence of the maximum)
ArgMax_Last(v) ==
    CHOOSE i \in 1..Len(v) :
        /\ \A j \in 1..Len(v) : v[j] <= v[i]
        /\ \A j \in (i + 1)..Len(v) : v[j] < v[i]

ArgMax(v) ==
    CHOOSE i \in 1..Len(v) :
        /\ \A j \in 1..Len(v) : v[j] <= v[i]
        /\ \A j \in 1..(i - 1) : v[j] < v[i]

\* iter_classify from row i of the data on: the labels yielded
RECURSIVE IterClassify(_, _, _)
IterClassify(m, d, i) ==
    IF i > Len(d) THEN <<>>
    ELSE <<m[ArgMax(Scores(m, d[i], 1))].label>> \o IterClassify(m, d, i + 1)

\* classify(data): np.array(list(self.iter_classify(data))).  With no entry
\* in self.weights, values is an array of shape (0,) and values[:, 1] raises
\* IndexError for the first row of the data; no row, no values.
Classify(m, d) ==
    IF Len(d) > 0 /\ Len(m) = 0
    THEN [exit |-> "IndexError", labels |-> <<>>]
    ELSE [exit |-> "returned", labels |-> IterClassify(m, d, 1)]

\* Perceptron(): rule "fixed" by default, self.weights = {}
PerceptronInit ==
    /\ pc = "constructed"
    /\ rule = "fixed"
    /\ weights = <<>>
    /\ samples = <<>>
    /\ labels = <<>>
    /\ cls = 0
    /\ normalized = <<>>
    /\ call = NoCall
    /\ out = NoOut
    /\ before = <<>>
    /\ writes = <<>>
    /\ ntrain = 0
    /\ data = <<>>
    /\ result = NoOut

\* train(samples, labels)
Train ==
    /\ ntrain < MaxTrainCalls
    /\ \E t \in TrainingSets :
          LET order == Unique(t[2])
          IN  \E draws \in [1..Len(order) -> Draws(rule)] :
                 /\ samples' = t[1]
                 /\ labels' = t[2]
                 /\ writes' = order
                 /\ weights' = TrainFrom(weights, rule, order, draws, t[1], t[2], 1)
    /\ before' = weights
    /\ ntrain' = ntrain + 1
    /\ pc' = "trained"
    /\ data' = <<>>
    /\ result' = NoOut
    /\ UNCHANGED <<cls, normalized, call, out, rule>>

\* classify(data)
ClassifyCall ==
    /\ \E d \in DataSets :
          /\ data' = d
          /\ result' = Classify(weights, d)
    /\ pc' = "classified"
    /\ UNCHANGED <<samples, labels, cls, normalized, call, out, rule, weights,
                   before, writes, ntrain>>

PerceptronNext == Train \/ ClassifyCall

SpecPerceptron == PerceptronInit /\ [][PerceptronNext]_vars

----------------------------------------------------------------------------
(* Claims about the training rules, checked under Spec *)

\* the call of fn has returned (or raised)
Returned(fn) == pc = "returned" /\ call.fn = fn

\* w . y > 0 for every row y of Y
AllPositive(w, Y) == \A k \in 1..Len(Y) : Dot(w, Y[k]) > 0

\* Candidate separating vectors: a box around the origin, and the vector
\* that separates HardSeparable.  A set one of them separates is linearly
\* separable.
SepBound == 3
Separators ==
    {<<b, a>> : b \in -SepBound..SepBound, a \in -SepBound..SepBound}
    \cup {<<-447, 2>>}
Separable(Y) == \E w \in Separators : AllPositive(w, Y)

C4_CapReturnsBest ==
    (Returned("fixed_increment") /\ out.exit = "cap")
        => /\ out.trial = TrialCap + 1
           /\ out.best = out.minErrors
           /\ out.weights = out.minWeights

\* a cap exit where the best candidate differs from the current weights
C4_Witness ==
    /\ Returned("fixed_increment")
    /\ out.exit = "cap"
    /\ out.weights = out.minWeights
    /\ out.weights # out.last

\* C5: whenever batch_relaxation returns through the empty-error-set exit,
\* every augmented sample y has weights . y > margin, and so > 0.
C5_EmptyErrorExitSeparates ==
    (Returned("batch_relaxation") /\ out.exit = "converged")
        => \A k \in 1..Len(normalized) :
              /\ FGt(FDot(out.weights, normalized[k]), call.margin)
              /\ FGt(FDot(out.weights, normalized[k]), 0)

\* C6: batch_relaxation raises ValueError exactly when rate <= 0 or
\* rate >= 2, and then before weights are drawn or a trial is run.
C6_RateChecked ==
    Returned("batch_relaxation")
        => /\ out.exit = "ValueError"
                <=> (call.rate <= 0 \/ call.rate >= 2 * RateDen)
           /\ out.exit = "ValueError" => (out.weights = <<>> /\ out.trial = 0)

\* rate = 2, the end of the interval, on a sample set that is not empty
C6_Witness ==
    /\ Returned("batch_relaxation")
    /\ call.rate = 2 * RateDen
    /\ Len(normalized) > 0
    /\ out.exit = "ValueError"
    /\ out.weights = <<>>

\* C8: normalize_features returns one row per sample, in order; the row of
\* a sample of the target class is [1, features...], the row of any other
\* sample is that vector with all its coordinates negated.
C8_Normalized ==
    pc \in {"normalized", "returned"}
        => /\ Len(normalized) = Len(samples)
           /\ \A i \in 1..Len(samples) :
                 /\ Len(normalized[i]) = Len(samples[i]) + 1
                 /\ normalized[i][1] = (IF labels[i] = cls THEN 1 ELSE -1)
                 /\ \A j \in 1..Len(samples[i]) :
                       normalized[i][j + 1] = normalized[i][1] * samples[i][j]

\* a sample of the target class followed by one of the other class
C8_Witness ==
    /\ pc = "normalized"
    /\ Len(samples) = 2
    /\ labels[1] = cls /\ labels[2] # cls
    /\ samples[1] = <<1>> /\ samples[2] = <<1>>
    /\ normalized = << <<1, 1>>, <<-1, -1>> >>

\* C9: every call of fixed_increment, and every call of batch_relaxation
\* with 0 < rate < 2, leaves its loop with the trial counter at most
\* 100 001 and returns a vector of d + 1 weights without raising.
C9_CallsTerminate ==
    pc = "returned"
        => /\ out.exit # "running"
           /\ out.trial <= TrialCap + 1
           /\ (call.fn = "fixed_increment"
                 \/ (0 < call.rate /\ call.rate < 2 * RateDen))
                => /\ out.exit # "ValueError"
                   /\ Len(out.weights) = FeatureCount + 1

\* batch_relaxation on a set it cannot satisfy: the cap ends the loop
C9_Witness ==
    /\ Returned("batch_relaxation")
    /\ out.exit = "cap"
    /\ out.trial = TrialCap + 1
    /\ Len(out.weights) = FeatureCount + 1

----------------------------------------------------------------------------
(* Claims about the Perceptron, checked under SpecPerceptron *)

\* the distinct labels of the last training set
LastLabels == {labels[i] : i \in 1..Len(labels)}

\* the vector the dict m holds for label
GetItem(m, label) == m[CHOOSE i \in 1..Len(m) : m[i].label = label].a

\* the dict as a function from its keys
AsMapping(m) == [l \in Keys(m) |-> GetItem(m, l)]

\* the orders in which the labels S can be trained
Orders(S) ==
    {o \in [1..Cardinality(S) -> S] : \A i, j \in 1..Cardinality(S) :
                                          o[i] = o[j] => i = j}

\* C1: classify on a Perceptron that train was never called on ends in an
\* error for every data sequence, and returns nothing.
C1_UntrainedClassifyRaises ==
    (pc = "classified" /\ ntrain = 0 /\ weights = <<>>)
        => result.exit # "returned"

\* C2: after train, the keys of the weights mapping are exactly the
\* distinct labels of the last training set, each stored once by that call.
C2_KeysAreLastLabels ==
    ntrain > 0
        => /\ Keys(weights) = LastLabels
           /\ Len(weights) = Cardinality(LastLabels)
           /\ Len(writes) = Cardinality(LastLabels)
           /\ {writes[i] : i \in 1..Len(writes)} = LastLabels

\* C7: with entries in the weights mapping, classify returns for every row
\* x a stored label whose score a[1:] . x + a[0] is the greatest of all
\* entries, the first such entry in the mapping's iteration order.
C7_FirstMaximum ==
    (pc = "classified" /\ Len(weights) > 0)
        => /\ result.exit = "returned"
           /\ Len(result.labels) = Len(data)
           /\ \A i \in 1..Len(data) :
                 \E k \in 1..Len(weights) :
                    /\ result.labels[i] = weights[k].label
                    /\ \A j \in 1..Len(weights) :
                          Score(weights[j].a, data[i]) <= Score(weights[k].a, data[i])
                    /\ \A j \in 1..(k - 1) :
                          Score(weights[j].a, data[i]) < Score(weights[k].a, data[i])

\* two entries with the same score, stored by two train calls so that the
\* greater label comes first: the first entry's label is returned
C7_Witness ==
    /\ pc = "classified"
    /\ Len(weights) = 2
    /\ weights[1].label > weights[2].label
    /\ Len(data) = 1
    /\ Score(weights[1].a, data[1]) = Score(weights[2].a, data[1])
    /\ result.exit = "returned"
    /\ result.labels = <<weights[1].label>>

\* C10: with the fixed-increment rule, the entry train stores for a label L
\* is fixed_increment(normalize_features(L, samples, labels)); entries of
\* other labels are left as they were; and training the labels in any
\* order yields the same mapping.
C10_EntriesIndependent ==
    (ntrain > 0 /\ rule = "fixed")
        => /\ \A l \in LastLabels :
                 /\ l \in Keys(weights)
                 /\ GetItem(weights, l) =
                       FixedIncrement(NormalizeFeatures(l, samples, labels),
                                      FeatureCount + 1).weights
           /\ \A l \in Keys(before) \ LastLabels :
                 /\ l \in Keys(weights)
                 /\ GetItem(weights, l) = GetItem(before, l)
           /\ \A o \in Orders(LastLabels) :
                 AsMapping(TrainFrom(before, rule, o, [i \in 1..Len(o) |-> <<>>],
                                     samples, labels, 1))
                    = AsMapping(weights)

\* a training set with two labels whose entries differ, trained on a
\* Perceptron that held entries already
C10_Witness ==
    /\ pc = "trained"
    /\ Len(before) = 2
    /\ Len(writes) = 2
    /\ weights # before
    /\ GetItem(weights, writes[1]) # GetItem(weights, writes[2])

====
